---- MODULE Spec2Model ----
(***************************************************************************)
(* Permission resolution of the hospital management backend.               *)
(*                                                                         *)
(* The state is the content of the permission tables                       *)
(* (apps/permissions/models.py): custom_permissions, user_permissions,     *)
(* group_permissions, the user<->group relation of django.contrib.auth,    *)
(* the is_active flag of each UserGroup and the PermissionLog rows the     *)
(* views write.  UserPermission.has_permission and get_user_permissions    *)
(* are operators over that state; the REST handlers of                     *)
(* apps/permissions/views.py and apps/users/views.py are the actions.      *)
(* A handler is modelled from its body: rest_framework evaluates           *)
(* permission_classes before the body runs, and the actions describe the   *)
(* requests that were let through.  In SpecConcurrent the POST of          *)
(* user-permissions/ is split at its two database statements, the          *)
(* validation query and the INSERT, and in_flight holds the requests that   *)
(* are between the two.                                                     *)
(***************************************************************************)
EXTENDS Naturals, Sequences, FiniteSets

VARIABLES
  custom_permissions,  \* rows of Permission: [content_type, operation, codename, is_active]
  user_permissions,    \* rows of UserPermission: [user, permission, is_granted]
  group_permissions,   \* rows of GroupPermission: [group, permission]
  user_groups,         \* rows of User.groups: [user, group]
  user_group_active,   \* UserGroup.is_active of every group
  user_group_default,  \* the is_default flag of every role
  appointments,        \* the rows of Appointment
  permission_logs,     \* rows of PermissionLog in insertion order
  in_flight,           \* the POST user-permissions/ requests being served
  response,            \* what the last call returned
  ops                  \* number of requests handled so far

vars == <<custom_permissions, user_permissions, group_permissions, user_groups,
          user_group_active, user_group_default, appointments, in_flight,
          permission_logs, response, ops>>

----------------------------------------------------------------------------
(* Bounds of the exploration *)

\* rows of user_permissions + group_permissions + user_groups drawn for a check
MaxRows == 3
\* requests handled in one behaviour of Spec
MaxOps == 3
\* POST user-permissions/ requests served at the same time
MaxRequests == 2

\* rows of Appointment
MaxAppointments == 2

----------------------------------------------------------------------------
(* The universe: users, groups, content types, operations, code strings *)

\* primary keys of the users table; "admin" is the account made by
\* create_superuser
Users == {"u1", "admin"}

\* the user objects a caller passes: the attributes has_permission reads.  The
\* third is an identity that is not authenticated; it carries the key of u1, so
\* the rows stored under that key are rows stored for it.
Identities ==
  {[id |-> "u1", is_authenticated |-> TRUE, is_superuser |-> FALSE],
   [id |-> "admin", is_authenticated |-> TRUE, is_superuser |-> TRUE],
   [id |-> "u1", is_authenticated |-> FALSE, is_superuser |-> FALSE]}

Groups == {"g1", "g2"}

\* rows of django_content_type, <<app_label, model>>: the Permission model of
\* django.contrib.auth and the Permission model of apps.permissions share the
\* model name
ContentTypes == {<<"permissions", "permission">>, <<"auth", "permission">>}

Operations == {"read"}

\* the primary key of a Permission row (unique_together content_type, operation)
PermissionIds == {<<ct, op>> : ct \in ContentTypes, op \in Operations}

PermissionId(p) == <<p.content_type, p.operation>>

\* A string is the sequence of its pieces; "." is the separator character and
\* every other piece is a run of characters without a dot.
Dot == "."

\* f"{self.content_type.model}.{self.operation}"
DerivedCodename(ct, op) == <<ct[2], Dot, op>>

\* a codename typed by hand: the app-qualified form
QualifiedCodename(ct, op) == <<ct[1], Dot, ct[2], Dot, op>>

Codes == {
  <<"permission", Dot, "read">>,
  <<"permissions", Dot, "permission", Dot, "read">>,
  <<"auth", Dot, "permission", Dot, "read">>,
  <<"permission", "read">>,
  <<"permissions", Dot, "permission", Dot, "read", Dot, "read">>,
  <<"patient", Dot, "read">>,
  <<"permission", Dot, "delete">>,
  <<Dot, "read">> }

----------------------------------------------------------------------------
(* str.split('.') *)

RECURSIVE SplitFrom(_, _, _)
\* the parts of s[i..], given the part `cur` read so far
SplitFrom(s, i, cur) ==
  IF i > Len(s) THEN <<cur>>
  ELSE IF s[i] = Dot THEN <<cur>> \o SplitFrom(s, i + 1, <<>>)
  ELSE SplitFrom(s, i + 1, Append(cur, s[i]))

split(s) == SplitFrom(s, 1, <<>>)

----------------------------------------------------------------------------
(* Reading the tables *)

\* the row a foreign key `permission` points to
PermissionById(id) == CHOOSE p \in custom_permissions : PermissionId(p) = id

\* QuerySet.get(): the row when exactly one matches
Get(rows) ==
  IF rows = {} THEN [exception |-> "DoesNotExist"]
  ELSE IF Cardinality(rows) > 1 THEN [exception |-> "MultipleObjectsReturned"]
  ELSE [exception |-> "None", row |-> CHOOSE r \in rows : TRUE]

\* Permission.objects.get(content_type__model=model_name, operation=operation,
\*                        is_active=True)
get_by_model(model_name, operation) ==
  Get({p \in custom_permissions :
         /\ <<p.content_type[2]>> = model_name
         /\ <<p.operation>> = operation
         /\ p.is_active})

\* ContentType.objects.get(app_label=app_label, model=model_name), then
\* Permission.objects.get(content_type=content_type, operation=operation,
\*                        is_active=True)
get_by_content_type(app_label, model_name, operation) ==
  LET content_type == Get({ct \in ContentTypes :
                             <<ct[1]>> = app_label /\ <<ct[2]>> = model_name})
  IN IF content_type.exception # "None" THEN [exception |-> "DoesNotExist"]
     ELSE Get({p \in custom_permissions :
                 /\ p.content_type = content_type.row
                 /\ <<p.operation>> = operation
                 /\ p.is_active})

\* user.groups.all()
groups_of(user) == {ug.group : ug \in {r \in user_groups : r.user = user.id}}

\* decide with the group query moved in front of the explicit denial
decide_groups_first(user, permission) ==
  IF \E gp \in group_permissions :
       gp.group \in groups_of(user) /\ gp.permission = permission
  THEN TRUE
  ELSE \E up \in user_permissions :
         up.user = user.id /\ up.permission = permission /\ up.is_granted

\* the three queries after the permission is found: explicit denial, direct
\* permission, group permissions
decide(user, permission) ==
  IF \E up \in user_permissions :
       up.user = user.id /\ up.permission = permission /\ ~up.is_granted
  THEN FALSE
  ELSE IF \E up \in user_permissions :
            up.user = user.id /\ up.permission = permission /\ up.is_granted
  THEN TRUE
  ELSE \E gp \in group_permissions :
         gp.group \in groups_of(user) /\ gp.permission = permission

Returned(value) == [exception |-> "None", value |-> value]

Raised(exception) == [exception |-> exception, value |-> FALSE]

\* lookup with the is_active=True condition left out of both queries
lookup_any_status(permission_codename) ==
  LET parts == split(permission_codename)
  IN IF Len(parts) = 2
     THEN Get({p \in custom_permissions :
                 <<p.content_type[2]>> = parts[1] /\ <<p.operation>> = parts[2]})
     ELSE IF Len(parts) = 3
     THEN Get({p \in custom_permissions :
                 /\ <<p.content_type[1]>> = parts[1]
                 /\ <<p.content_type[2]>> = parts[2]
                 /\ <<p.operation>> = parts[3]})
     ELSE [exception |-> "DoesNotExist"]

\* lookup that reads app_label, model and operation off the front of any
\* string of three parts or more
lookup_first_three(permission_codename) ==
  LET parts == split(permission_codename)
  IN IF Len(parts) = 2 THEN get_by_model(parts[1], parts[2])
     ELSE IF Len(parts) >= 3 THEN get_by_content_type(parts[1], parts[2], parts[3])
     ELSE [exception |-> "DoesNotExist"]

\* the lookup of has_permission: the permission, "denied" for the branches that
\* return False, or the exception that leaves the method
lookup(permission_codename) ==
  LET parts == split(permission_codename)
  IN IF Len(parts) = 2 THEN get_by_model(parts[1], parts[2])
     ELSE IF Len(parts) = 3 THEN get_by_content_type(parts[1], parts[2], parts[3])
     ELSE [exception |-> "DoesNotExist"]

\* has_permission without its first two lines
has_permission_unguarded(user, permission_codename) ==
  LET found == lookup(permission_codename)
  IN IF found.exception = "DoesNotExist" THEN Returned(FALSE)
     ELSE IF found.exception # "None" THEN Raised(found.exception)
     ELSE Returned(decide(user, PermissionId(found.row)))

\* UserPermission.has_permission(user, permission_codename)
has_permission(user, permission_codename) ==
  IF ~user.is_authenticated THEN Returned(FALSE)
  ELSE LET found == lookup(permission_codename)
       IN IF found.exception = "DoesNotExist" THEN Returned(FALSE)
          ELSE IF found.exception # "None" THEN Raised(found.exception)
          ELSE Returned(decide(user, PermissionId(found.row)))

\* get_user_permissions without the exclude() of the denied permissions
get_user_permissions_denied_kept(user) ==
  IF ~user.is_authenticated THEN {}
  ELSE LET direct_permissions == {up \in user_permissions :
                                    up.user = user.id /\ up.is_granted}
           group_perms == {gp \in group_permissions :
                                    gp.group \in groups_of(user)}
       IN {PermissionById(up.permission).codename : up \in direct_permissions}
            \cup {PermissionById(gp.permission).codename : gp \in group_perms}

\* UserPermission.get_user_permissions(user), the list as the set it is built from
get_user_permissions(user) ==
  IF ~user.is_authenticated THEN {}
  ELSE LET direct_permissions == {up \in user_permissions :
                                    up.user = user.id /\ up.is_granted}
           direct_denied == {up.permission : up \in {r \in user_permissions :
                                    r.user = user.id /\ ~r.is_granted}}
           group_perms == {gp \in group_permissions :
                                    /\ gp.group \in groups_of(user)
                                    /\ gp.permission \notin direct_denied}
       IN {PermissionById(up.permission).codename : up \in direct_permissions}
            \cup {PermissionById(gp.permission).codename : gp \in group_perms}

----------------------------------------------------------------------------
(* The stored states a check can meet *)

RECURSIVE SubsetsOfSize(_, _)
\* the subsets of S with exactly k elements
SubsetsOfSize(S, k) ==
  IF k = 0 THEN {{}}
  ELSE IF S = {} THEN {}
  ELSE LET x == CHOOSE y \in S : TRUE
       IN SubsetsOfSize(S \ {x}, k)
            \cup {T \cup {x} : T \in SubsetsOfSize(S \ {x}, k - 1)}

\* a Permission row as Permission.save() leaves it: the codename is derived
\* when none was given (lines 52-53) and kept when one was (the admin form)
PermissionRows ==
  {[content_type |-> ct, operation |-> op, codename |-> cn, is_active |-> a] :
     ct \in ContentTypes, op \in Operations,
     cn \in {"derived", "qualified"}, a \in BOOLEAN}

SavedRow(r) ==
  [content_type |-> r.content_type, operation |-> r.operation,
   codename |-> IF r.codename = "derived"
                THEN DerivedCodename(r.content_type, r.operation)
                ELSE QualifiedCodename(r.content_type, r.operation),
   is_active |-> r.is_active]

\* unique_together content_type, operation (Permission.Meta) and unique codename
CatalogUnique(catalog) ==
  \A p, q \in catalog :
    (PermissionId(p) = PermissionId(q) \/ p.codename = q.codename) => p = q

Catalogs ==
  {c \in {{SavedRow(r) : r \in rs} : rs \in SUBSET PermissionRows} :
     CatalogUnique(c)}

\* unique_together user, permission (UserPermission.Meta)
OverridesUnique(rows) ==
  \A r, s \in rows : (r.user = s.user /\ r.permission = s.permission) => r = s

\* the requests POST user-permissions/ is serving, and a request before its
\* serializer has run
RequestIds == 1..MaxRequests

Idle == [pc |-> "idle"]

InitLog ==
  /\ user_group_default = [g \in Groups |-> FALSE]
  /\ appointments = {}
  /\ permission_logs = <<>>
  /\ in_flight = [r \in RequestIds |-> Idle]
  /\ response = [op |-> "none"]
  /\ ops = 0

CheckInit ==
  /\ custom_permissions \in Catalogs
  /\ \E k1, k2, k3 \in 0..MaxRows :
       /\ k1 + k2 + k3 <= MaxRows
       /\ LET ids == {PermissionId(p) : p \in custom_permissions}
          IN /\ user_permissions \in
                  {rows \in SubsetsOfSize([user : Users, permission : ids,
                                           is_granted : BOOLEAN], k1) :
                     OverridesUnique(rows)}
             /\ group_permissions \in
                  SubsetsOfSize([group : Groups, permission : ids], k2)
             /\ user_groups \in SubsetsOfSize([user : Users, group : Groups], k3)
  /\ user_group_active \in [Groups -> BOOLEAN]
  /\ InitLog

\* a check that stores what it found: a denial row for an authenticated user
\* it answered False
Check_recording(user, permission_codename) ==
  /\ response.op = "none"
  /\ response' = [op |-> "has_permission", user |-> user,
                  permission_codename |-> permission_codename,
                  result |-> has_permission(user, permission_codename)]
  /\ user_permissions' =
       IF /\ user.is_authenticated
          /\ has_permission(user, permission_codename) = Returned(FALSE)
       THEN user_permissions \cup
              {[user |-> user.id, permission |-> id, is_granted |-> FALSE] :
                 id \in {PermissionId(p) : p \in custom_permissions}}
       ELSE user_permissions
  /\ UNCHANGED <<custom_permissions, group_permissions, user_groups,
                 user_group_active, user_group_default,
                 appointments, in_flight, permission_logs, ops>>

\* a caller asks UserPermission.has_permission(user, permission_codename);
\* the call writes nothing, so one call per drawn store covers every call
\* (response.op = "none" marks a store that has not been asked yet)
Check(user, permission_codename) ==
  /\ response.op = "none"
  /\ response' = [op |-> "has_permission", user |-> user,
                  permission_codename |-> permission_codename,
                  result |-> has_permission(user, permission_codename)]
  /\ UNCHANGED <<custom_permissions, user_permissions, group_permissions,
                 user_groups, user_group_active, user_group_default,
                 appointments, in_flight, permission_logs, ops>>

\* a caller asks User.get_user_permissions_list()
PermissionsList(user) ==
  /\ response.op = "none"
  /\ response' = [op |-> "get_user_permissions", user |-> user,
                  result |-> get_user_permissions(user)]
  /\ UNCHANGED <<custom_permissions, user_permissions, group_permissions,
                 user_groups, user_group_active, user_group_default,
                 appointments, in_flight, permission_logs, ops>>

CheckNext ==
  \/ \E user \in Identities, code \in Codes : Check(user, code)
  \/ \E user \in Identities : PermissionsList(user)

SpecCheck == CheckInit /\ [][CheckNext]_vars

----------------------------------------------------------------------------
(* The requests that change the tables *)

\* request.user of the administrative requests
Actors == {"admin"}

\* primary keys a request can name: the rows above and one key of no row
UserIds == Users \cup {"u9"}

GroupIds == Groups \cup {"g9"}

\* request.data.get(...) of a field the body may leave out
None == "None"

\* the same for a field that names a permission
NoPermission == <<>>

StoredPermissionIds == {PermissionId(p) : p \in custom_permissions}

\* PermissionLog.objects.create(action=..., user=request.user, ...)
LogEntry(action, actor, target_user, permission, group) ==
  [action |-> action, user |-> actor, target_user |-> target_user,
   permission |-> permission, group |-> group]

Handled(r) ==
  /\ response' = r
  /\ ops' = ops + 1

\* an expires_at a request body can carry: none, or a time that has passed
Expiries == {None, "past"}

\* POST user-permissions/: UserPermissionSerializer validates the keys and the
\* unique_together of its model, perform_create saves and logs.  expires_at is
\* no field of the serializer or of the model: the body's value is dropped.
UserPermissionCreate(actor, user, permission, is_granted, expires_at) ==
  /\ ops < MaxOps
  /\ IF \/ user \notin Users
        \/ permission \notin StoredPermissionIds
        \/ \E up \in user_permissions :
             up.user = user /\ up.permission = permission
     THEN /\ Handled([op |-> "create", status |-> 400, user |-> user,
                      permission |-> permission, is_granted |-> is_granted])
          /\ UNCHANGED <<user_permissions, permission_logs>>
     ELSE /\ user_permissions' = user_permissions \cup
               {[user |-> user, permission |-> permission,
                 is_granted |-> is_granted]}
          /\ permission_logs' = Append(permission_logs,
               LogEntry(IF is_granted THEN "grant_user" ELSE "revoke_user",
                        actor, user, permission, None))
          /\ Handled([op |-> "create", status |-> 201, user |-> user,
                      permission |-> permission, is_granted |-> is_granted])
  /\ UNCHANGED <<custom_permissions, group_permissions, user_groups,
                 user_group_active, user_group_default,
                 appointments, in_flight>>

\* PATCH user-permissions/<pk>/ with is_granted: UpdateModelMixin, no log
UserPermissionUpdate(user, permission, is_granted) ==
  /\ ops < MaxOps
  /\ IF \E up \in user_permissions :
          up.user = user /\ up.permission = permission
     THEN /\ user_permissions' =
               {up \in user_permissions :
                  ~(up.user = user /\ up.permission = permission)}
               \cup {[user |-> user, permission |-> permission,
                      is_granted |-> is_granted]}
          /\ Handled([op |-> "update", status |-> 200, user |-> user,
                      permission |-> permission])
     ELSE /\ Handled([op |-> "update", status |-> 404, user |-> user,
                      permission |-> permission])
          /\ UNCHANGED user_permissions
  /\ UNCHANGED <<custom_permissions, group_permissions, user_groups,
                 user_group_active, user_group_default,
                 appointments, in_flight, permission_logs>>

\* a destroy that answers 204 and leaves the row
UserPermissionDestroy_kept(user, permission) ==
  /\ ops < MaxOps
  /\ Handled([op |-> "destroy",
              status |-> IF \E up \in user_permissions :
                              up.user = user /\ up.permission = permission
                         THEN 204 ELSE 404,
              user |-> user, permission |-> permission])
  /\ UNCHANGED <<custom_permissions, user_permissions, group_permissions,
                 user_groups, user_group_active, user_group_default,
                 appointments, in_flight, permission_logs>>

\* DELETE user-permissions/<pk>/: DestroyModelMixin, no log
UserPermissionDestroy(user, permission) ==
  /\ ops < MaxOps
  /\ IF \E up \in user_permissions :
          up.user = user /\ up.permission = permission
     THEN /\ user_permissions' =
               {up \in user_permissions :
                  ~(up.user = user /\ up.permission = permission)}
          /\ Handled([op |-> "destroy", status |-> 204, user |-> user,
                      permission |-> permission])
     ELSE /\ Handled([op |-> "destroy", status |-> 404, user |-> user,
                      permission |-> permission])
          /\ UNCHANGED user_permissions
  /\ UNCHANGED <<custom_permissions, group_permissions, user_groups,
                 user_group_active, user_group_default,
                 appointments, in_flight, permission_logs>>

\* add_permission writing its log row whether or not get_or_create made a row
add_permission_always_logged(actor, group, permission_id) ==
  /\ ops < MaxOps
  /\ IF group \notin Groups
     THEN /\ Handled([op |-> "add_permission", status |-> 404, created |-> FALSE])
          /\ UNCHANGED <<group_permissions, permission_logs>>
     ELSE IF permission_id = NoPermission
     THEN /\ Handled([op |-> "add_permission", status |-> 400, created |-> FALSE])
          /\ UNCHANGED <<group_permissions, permission_logs>>
     ELSE IF permission_id \notin StoredPermissionIds
     THEN /\ Handled([op |-> "add_permission", status |-> 404, created |-> FALSE])
          /\ UNCHANGED <<group_permissions, permission_logs>>
     ELSE LET row == [group |-> group, permission |-> permission_id]
              created == row \notin group_permissions
          IN /\ group_permissions' = group_permissions \cup {row}
             /\ permission_logs' =
                  Append(permission_logs,
                         LogEntry("grant_group", actor, None, permission_id, group))
             /\ Handled([op |-> "add_permission", status |-> 200,
                         created |-> created])
  /\ UNCHANGED <<custom_permissions, user_permissions, user_groups,
                 user_group_active, user_group_default,
                 appointments, in_flight>>

\* POST groups/<pk>/add_permission/
add_permission(actor, group, permission_id) ==
  /\ ops < MaxOps
  /\ IF group \notin Groups
     THEN /\ Handled([op |-> "add_permission", status |-> 404, created |-> FALSE])
          /\ UNCHANGED <<group_permissions, permission_logs>>
     ELSE IF permission_id = NoPermission
     THEN /\ Handled([op |-> "add_permission", status |-> 400, created |-> FALSE])
          /\ UNCHANGED <<group_permissions, permission_logs>>
     ELSE IF permission_id \notin StoredPermissionIds
     THEN /\ Handled([op |-> "add_permission", status |-> 404, created |-> FALSE])
          /\ UNCHANGED <<group_permissions, permission_logs>>
     ELSE LET row == [group |-> group, permission |-> permission_id]
              created == row \notin group_permissions
          IN /\ group_permissions' = group_permissions \cup {row}
             /\ permission_logs' =
                  IF created
                  THEN Append(permission_logs,
                         LogEntry("grant_group", actor, None, permission_id, group))
                  ELSE permission_logs
             /\ Handled([op |-> "add_permission", status |-> 200,
                         created |-> created])
  /\ UNCHANGED <<custom_permissions, user_permissions, user_groups,
                 user_group_active, user_group_default,
                 appointments, in_flight>>

\* POST groups/<pk>/remove_permission/
remove_permission(actor, group, permission_id) ==
  /\ ops < MaxOps
  /\ IF group \notin Groups
     THEN /\ Handled([op |-> "remove_permission", status |-> 404])
          /\ UNCHANGED <<group_permissions, permission_logs>>
     ELSE IF permission_id = NoPermission
     THEN /\ Handled([op |-> "remove_permission", status |-> 400])
          /\ UNCHANGED <<group_permissions, permission_logs>>
     ELSE LET row == [group |-> group, permission |-> permission_id]
          IN IF row \in group_permissions
             THEN /\ permission_logs' = Append(permission_logs,
                       LogEntry("revoke_group", actor, None, permission_id, group))
                  /\ group_permissions' = group_permissions \ {row}
                  /\ Handled([op |-> "remove_permission", status |-> 200])
             ELSE /\ Handled([op |-> "remove_permission", status |-> 404])
                  /\ UNCHANGED <<group_permissions, permission_logs>>
  /\ UNCHANGED <<custom_permissions, user_permissions, user_groups,
                 user_group_active, user_group_default,
                 appointments, in_flight>>

\* POST groups/<pk>/add_user/
add_user(actor, group, user_id) ==
  /\ ops < MaxOps
  /\ IF group \notin Groups
     THEN /\ Handled([op |-> "add_user", status |-> 404])
          /\ UNCHANGED <<user_groups, permission_logs>>
     ELSE IF user_id = None
     THEN /\ Handled([op |-> "add_user", status |-> 400])
          /\ UNCHANGED <<user_groups, permission_logs>>
     ELSE IF user_id \notin Users
     THEN /\ Handled([op |-> "add_user", status |-> 404])
          /\ UNCHANGED <<user_groups, permission_logs>>
     ELSE /\ user_groups' = user_groups \cup {[user |-> user_id, group |-> group]}
          /\ permission_logs' = Append(permission_logs,
               LogEntry("add_user_to_group", actor, user_id, NoPermission, group))
          /\ Handled([op |-> "add_user", status |-> 200])
  /\ UNCHANGED <<custom_permissions, user_permissions, group_permissions,
                 user_group_active, user_group_default,
                 appointments, in_flight>>

\* POST groups/<pk>/remove_user/
remove_user(actor, group, user_id) ==
  /\ ops < MaxOps
  /\ IF group \notin Groups
     THEN /\ Handled([op |-> "remove_user", status |-> 404])
          /\ UNCHANGED <<user_groups, permission_logs>>
     ELSE IF user_id = None
     THEN /\ Handled([op |-> "remove_user", status |-> 400])
          /\ UNCHANGED <<user_groups, permission_logs>>
     ELSE IF user_id \notin Users
     THEN /\ Handled([op |-> "remove_user", status |-> 404])
          /\ UNCHANGED <<user_groups, permission_logs>>
     ELSE /\ user_groups' = user_groups \ {[user |-> user_id, group |-> group]}
          /\ permission_logs' = Append(permission_logs,
               LogEntry("remove_user_from_group", actor, user_id, NoPermission, group))
          /\ Handled([op |-> "remove_user", status |-> 200])
  /\ UNCHANGED <<custom_permissions, user_permissions, group_permissions,
                 user_group_active, user_group_default,
                 appointments, in_flight>>

\* POST users/<pk>/add_to_group/
add_to_group(user, group_id) ==
  /\ ops < MaxOps
  /\ IF user \notin Users
     THEN /\ Handled([op |-> "add_to_group", status |-> 404])
          /\ UNCHANGED user_groups
     ELSE IF group_id = None
     THEN /\ Handled([op |-> "add_to_group", status |-> 400])
          /\ UNCHANGED user_groups
     ELSE IF group_id \notin Groups
     THEN /\ Handled([op |-> "add_to_group", status |-> 404])
          /\ UNCHANGED user_groups
     ELSE /\ user_groups' = user_groups \cup {[user |-> user, group |-> group_id]}
          /\ Handled([op |-> "add_to_group", status |-> 200])
  /\ UNCHANGED <<custom_permissions, user_permissions, group_permissions,
                 user_group_active, user_group_default,
                 appointments, in_flight, permission_logs>>

\* POST users/<pk>/remove_from_group/
remove_from_group(user, group_id) ==
  /\ ops < MaxOps
  /\ IF user \notin Users
     THEN /\ Handled([op |-> "remove_from_group", status |-> 404])
          /\ UNCHANGED user_groups
     ELSE IF group_id = None
     THEN /\ Handled([op |-> "remove_from_group", status |-> 400])
          /\ UNCHANGED user_groups
     ELSE IF group_id \notin Groups
     THEN /\ Handled([op |-> "remove_from_group", status |-> 404])
          /\ UNCHANGED user_groups
     ELSE /\ user_groups' = user_groups \ {[user |-> user, group |-> group_id]}
          /\ Handled([op |-> "remove_from_group", status |-> 200])
  /\ UNCHANGED <<custom_permissions, user_permissions, group_permissions,
                 user_group_active, user_group_default,
                 appointments, in_flight, permission_logs>>

\* PATCH permissions/<pk>/ with is_active: UpdateModelMixin over
\* PermissionSerializer, no log
PermissionUpdate(permission, is_active) ==
  /\ ops < MaxOps
  /\ IF permission \in StoredPermissionIds
     THEN /\ custom_permissions' =
               {IF PermissionId(p) = permission
                THEN [p EXCEPT !.is_active = is_active] ELSE p :
                  p \in custom_permissions}
          /\ Handled([op |-> "permission_update", status |-> 200])
     ELSE /\ Handled([op |-> "permission_update", status |-> 404])
          /\ UNCHANGED custom_permissions
  /\ UNCHANGED <<user_permissions, group_permissions, user_groups,
                 user_group_active, user_group_default,
                 appointments, in_flight, permission_logs>>

\* PATCH groups/<pk>/ with is_active: UpdateModelMixin over
\* UserGroupSerializer, no log
UserGroupUpdate(group, is_active) ==
  /\ ops < MaxOps
  /\ IF group \in Groups
     THEN /\ user_group_active' = [user_group_active EXCEPT ![group] = is_active]
          /\ Handled([op |-> "group_update", status |-> 200])
     ELSE /\ Handled([op |-> "group_update", status |-> 404])
          /\ UNCHANGED user_group_active
  /\ UNCHANGED <<custom_permissions, user_permissions, group_permissions,
                 user_groups, user_group_default, appointments, in_flight,
                 permission_logs>>

\* the sequence without its i-th element
RemoveAt(seq, i) == SubSeq(seq, 1, i - 1) \o SubSeq(seq, i + 1, Len(seq))

\* admin/permissions/permissionlog/<pk>/delete/: ModelAdmin.delete_view of the
\* registered PermissionLogAdmin
PermissionLogAdmin_delete_view(i) ==
  /\ ops < MaxOps
  /\ i \in 1..Len(permission_logs)
  /\ permission_logs' = RemoveAt(permission_logs, i)
  /\ Handled([op |-> "admin_delete", status |-> 302])
  /\ UNCHANGED <<custom_permissions, user_permissions, group_permissions,
                 user_groups, user_group_active, user_group_default,
                 appointments, in_flight>>

\* admin/permissions/permissionlog/<pk>/change/: ModelAdmin.change_view; only
\* timestamp is in readonly_fields, the form saves the other fields
PermissionLogAdmin_change_view(i, action) ==
  /\ ops < MaxOps
  /\ i \in 1..Len(permission_logs)
  /\ permission_logs' = [permission_logs EXCEPT ![i].action = action]
  /\ Handled([op |-> "admin_change", status |-> 302])
  /\ UNCHANGED <<custom_permissions, user_permissions, group_permissions,
                 user_groups, user_group_active, user_group_default,
                 appointments, in_flight>>

\* the tables after provisioning: the permission of the Permission model, a
\* group that holds it and a user in that group
Init ==
  /\ custom_permissions =
       {SavedRow([content_type |-> <<"permissions", "permission">>,
                  operation |-> "read", codename |-> "derived",
                  is_active |-> TRUE])}
  /\ user_permissions = {}
  /\ group_permissions =
       {[group |-> "g1", permission |-> <<<<"permissions", "permission">>, "read">>]}
  /\ user_groups = {[user |-> "u1", group |-> "g1"]}
  /\ user_group_active = [g \in Groups |-> TRUE]
  /\ InitLog

Next ==
  \/ \E actor \in Actors, user \in UserIds, permission \in PermissionIds,
        is_granted \in BOOLEAN, expires_at \in Expiries :
       UserPermissionCreate(actor, user, permission, is_granted, expires_at)
  \/ \E user \in UserIds, permission \in PermissionIds, is_granted \in BOOLEAN :
       UserPermissionUpdate(user, permission, is_granted)
  \/ \E user \in UserIds, permission \in PermissionIds :
       UserPermissionDestroy(user, permission)
  \/ \E actor \in Actors, group \in GroupIds,
        permission_id \in PermissionIds \cup {NoPermission} :
       add_permission(actor, group, permission_id)
  \/ \E actor \in Actors, group \in GroupIds,
        permission_id \in PermissionIds \cup {NoPermission} :
       remove_permission(actor, group, permission_id)
  \/ \E actor \in Actors, group \in GroupIds, user_id \in UserIds \cup {None} :
       add_user(actor, group, user_id)
  \/ \E actor \in Actors, group \in GroupIds, user_id \in UserIds \cup {None} :
       remove_user(actor, group, user_id)
  \/ \E user \in UserIds, group_id \in GroupIds \cup {None} :
       add_to_group(user, group_id)
  \/ \E user \in UserIds, group_id \in GroupIds \cup {None} :
       remove_from_group(user, group_id)
  \/ \E permission \in PermissionIds, is_active \in BOOLEAN :
       PermissionUpdate(permission, is_active)
  \/ \E group \in GroupIds, is_active \in BOOLEAN :
       UserGroupUpdate(group, is_active)
  \/ \E i \in 1..MaxOps : PermissionLogAdmin_delete_view(i)
  \/ \E i \in 1..MaxOps, action \in {"grant_user", "revoke_user"} :
       PermissionLogAdmin_change_view(i, action)

Spec == Init /\ [][Next]_vars

----------------------------------------------------------------------------
(* POST user-permissions/ served by several workers.  CreateModelMixin.create
   runs serializer.is_valid() and then perform_create(); each statement is
   committed on its own (no ATOMIC_REQUESTS, no transaction.atomic), so other
   requests run between the validation and the INSERT. *)

\* serializer.is_valid(raise_exception=True): the keys exist and the
\* UniqueTogetherValidator finds no row for (user, permission)
is_valid(r, actor, user, permission, is_granted) ==
  /\ in_flight[r] = Idle
  /\ IF \/ user \notin Users
        \/ permission \notin StoredPermissionIds
        \/ \E up \in user_permissions :
             up.user = user /\ up.permission = permission
     THEN /\ in_flight' = [in_flight EXCEPT ![r] = [pc |-> "done"]]
          /\ response' = [op |-> "create", status |-> 400, user |-> user,
                          permission |-> permission, is_granted |-> is_granted]
     ELSE /\ in_flight' = [in_flight EXCEPT ![r] =
               [pc |-> "validated", actor |-> actor, user |-> user,
                permission |-> permission, is_granted |-> is_granted]]
          /\ UNCHANGED response
  /\ UNCHANGED <<custom_permissions, user_permissions, group_permissions,
                 user_groups, user_group_active, user_group_default,
                 appointments, permission_logs, ops>>

\* perform_create with an INSERT the table accepts whatever rows it holds
perform_create_unconstrained(r) ==
  /\ in_flight[r].pc = "validated"
  /\ LET data == in_flight[r]
     IN /\ user_permissions' = user_permissions \cup
             {[user |-> data.user, permission |-> data.permission,
               is_granted |-> data.is_granted]}
        /\ permission_logs' = Append(permission_logs,
             LogEntry(IF data.is_granted THEN "grant_user" ELSE "revoke_user",
                      data.actor, data.user, data.permission, None))
        /\ response' = [op |-> "create", status |-> 201, user |-> data.user,
                        permission |-> data.permission,
                        is_granted |-> data.is_granted]
  /\ in_flight' = [in_flight EXCEPT ![r] = [pc |-> "done"]]
  /\ UNCHANGED <<custom_permissions, group_permissions, user_groups,
                 user_group_active, user_group_default,
                 appointments, ops>>

\* perform_create: serializer.save() sends the INSERT, which the unique index of
\* unique_together (user, permission) rejects with IntegrityError when a row
\* for the pair is there; after a successful INSERT the log row is written
perform_create(r) ==
  /\ in_flight[r].pc = "validated"
  /\ LET data == in_flight[r]
     IN IF \E up \in user_permissions :
             up.user = data.user /\ up.permission = data.permission
        THEN /\ response' = [op |-> "create", status |-> 500,
                             user |-> data.user,
                             permission |-> data.permission,
                             is_granted |-> data.is_granted]
             /\ UNCHANGED <<user_permissions, permission_logs>>
        ELSE /\ user_permissions' = user_permissions \cup
                  {[user |-> data.user, permission |-> data.permission,
                    is_granted |-> data.is_granted]}
             /\ permission_logs' = Append(permission_logs,
                  LogEntry(IF data.is_granted THEN "grant_user" ELSE "revoke_user",
                           data.actor, data.user, data.permission, None))
             /\ response' = [op |-> "create", status |-> 201,
                             user |-> data.user,
                             permission |-> data.permission,
                             is_granted |-> data.is_granted]
  /\ in_flight' = [in_flight EXCEPT ![r] = [pc |-> "done"]]
  /\ UNCHANGED <<custom_permissions, group_permissions, user_groups,
                 user_group_active, user_group_default,
                 appointments, ops>>

NextConcurrent ==
  \/ \E r \in RequestIds, actor \in Actors, user \in UserIds,
        permission \in PermissionIds, is_granted \in BOOLEAN :
       is_valid(r, actor, user, permission, is_granted)
  \/ \E r \in RequestIds : perform_create(r)
  \/ \E user \in UserIds, permission \in PermissionIds :
       UserPermissionDestroy(user, permission)

SpecConcurrent == Init /\ [][NextConcurrent]_vars

----------------------------------------------------------------------------
(* Registration of permissions (create_permissions command) *)

\* the `operations` argument: lists over Operations, an operation may repeat
OperationLists == {<<>>} \cup {<<op>> : op \in Operations}
                    \cup {<<op1, op2>> : op1 \in Operations, op2 \in Operations}

RECURSIVE get_or_create_each(_, _, _, _, _)
\* the loop of create_permissions_for_model from its i-th operation on, with
\* the catalog and the created list so far: get_or_create finds the row by
\* (content_type, operation) or inserts one that save() gives the codename
\* "<model>.<operation>"; the unique index on codename can refuse the INSERT
get_or_create_each(catalog, content_type, operations, i, created) ==
  IF i > Len(operations)
  THEN [exception |-> "None", catalog |-> catalog, created |-> created]
  ELSE LET operation == operations[i]
           row == [content_type |-> content_type, operation |-> operation,
                   codename |-> DerivedCodename(content_type, operation),
                   is_active |-> TRUE]
       IN IF \E p \in catalog : PermissionId(p) = <<content_type, operation>>
          THEN get_or_create_each(catalog, content_type, operations, i + 1,
                                  created)
          ELSE IF \E p \in catalog : p.codename = row.codename
          THEN [exception |-> "IntegrityError", catalog |-> catalog,
                created |-> created]
          ELSE get_or_create_each(catalog \cup {row}, content_type, operations,
                                  i + 1, created \cup {PermissionId(row)})

\* Permission.create_permissions_for_model(model_class, operations)
create_permissions_for_model(content_type, operations) ==
  /\ ops < MaxOps
  /\ LET done == get_or_create_each(custom_permissions, content_type,
                                    operations, 1, {})
     IN /\ custom_permissions' = done.catalog
        /\ Handled([op |-> "create_permissions_for_model",
                    content_type |-> content_type, operations |-> operations,
                    exception |-> done.exception, created |-> done.created])
  /\ UNCHANGED <<user_permissions, group_permissions, user_groups,
                 user_group_active, user_group_default,
                 appointments, in_flight, permission_logs>>

\* a catalog as the admin form and earlier registrations left it, no other rows
RegisterInit ==
  /\ custom_permissions \in Catalogs
  /\ user_permissions = {}
  /\ group_permissions = {}
  /\ user_groups = {}
  /\ user_group_active = [g \in Groups |-> TRUE]
  /\ InitLog

RegisterNext ==
  \E content_type \in ContentTypes, operations \in OperationLists :
    create_permissions_for_model(content_type, operations)

SpecRegister == RegisterInit /\ [][RegisterNext]_vars

----------------------------------------------------------------------------
(* The default role.  The UserGroup model is imported by views.py,
   serializers.py and admin.py but models.py does not define it; is_default
   and the operation that sets it follow the specification: "atomically clears
   is_default on all other roles, sets it on this one, inside one
   transaction". *)

\* the flags a database can hold: at most one role is the default
RoleDefaults ==
  {d \in [Groups -> BOOLEAN] : Cardinality({g \in Groups : d[g]}) <= 1}

\* the operation without the clearing of the other roles
setRoleDefault_set_only(role) ==
  /\ ops < MaxOps
  /\ IF role \in Groups
     THEN /\ user_group_default' = [user_group_default EXCEPT ![role] = TRUE]
          /\ Handled([op |-> "setRoleDefault", status |-> 200, role |-> role])
     ELSE /\ Handled([op |-> "setRoleDefault", status |-> 404, role |-> role])
          /\ UNCHANGED user_group_default
  /\ UNCHANGED <<custom_permissions, user_permissions, group_permissions,
                 user_groups, user_group_active, appointments, in_flight,
                 permission_logs>>

\* setRoleDefault(role): one transaction that clears the flag of every other
\* role and sets it on this one; a transaction shows other requests either
\* none or all of its writes, so it is one step
setRoleDefault(role) ==
  /\ ops < MaxOps
  /\ IF role \in Groups
     THEN /\ user_group_default' = [g \in Groups |-> g = role]
          /\ Handled([op |-> "setRoleDefault", status |-> 200, role |-> role])
     ELSE /\ Handled([op |-> "setRoleDefault", status |-> 404, role |-> role])
          /\ UNCHANGED user_group_default
  /\ UNCHANGED <<custom_permissions, user_permissions, group_permissions,
                 user_groups, user_group_active, appointments, in_flight,
                 permission_logs>>

\* the roles and their permissions, any role or none being the default
RolesInit ==
  /\ custom_permissions \in Catalogs
  /\ group_permissions \in SUBSET {[group |-> g, permission |-> PermissionId(p)] :
                                     g \in Groups, p \in custom_permissions}
  /\ user_permissions = {}
  /\ user_groups = {}
  /\ user_group_active \in [Groups -> BOOLEAN]
  /\ user_group_default \in RoleDefaults
  /\ appointments = {}
  /\ permission_logs = <<>>
  /\ in_flight = [r \in RequestIds |-> Idle]
  /\ response = [op |-> "none"]
  /\ ops = 0

\* the requests of several clients in any order
RolesNext ==
  \/ \E role \in GroupIds : setRoleDefault(role)
  \/ \E group \in GroupIds, is_active \in BOOLEAN : UserGroupUpdate(group, is_active)

SpecRoles == RolesInit /\ [][RolesNext]_vars

----------------------------------------------------------------------------
(* DRFPermissionMixin: the permission a viewset action requires *)

\* module_name of a viewset: unset, the name of a registered model, the name
\* of an app
ModuleNames == {None, "permission", "patients"}

\* self.action: the six actions of ModelViewSet and a custom @action
ViewActions == {"list", "retrieve", "create", "update", "partial_update",
                "destroy", "cancel"}

\* get_required_permission() returning None
NoCode == <<>>

\* the map with every action but the six standard ones left without a code
get_required_permission_standard_only(module_name, action) ==
  IF module_name = None THEN NoCode
  ELSE IF action \in {"list", "retrieve"} THEN <<module_name, Dot, "read">>
  ELSE IF action = "create" THEN <<module_name, Dot, "create">>
  ELSE IF action \in {"update", "partial_update"}
  THEN <<module_name, Dot, "update">>
  ELSE IF action = "destroy" THEN <<module_name, Dot, "delete">>
  ELSE NoCode

\* DRFPermissionMixin.get_required_permission
get_required_permission(module_name, action) ==
  IF module_name = None THEN NoCode
  ELSE LET action_permission_map ==
             [a \in {"list", "retrieve", "create", "update", "partial_update",
                     "destroy"} |->
                CASE a \in {"list", "retrieve"} -> "read"
                  [] a = "create" -> "create"
                  [] a \in {"update", "partial_update"} -> "update"
                  [] a = "destroy" -> "delete"]
           operation == IF action \in DOMAIN action_permission_map
                        THEN action_permission_map[action] ELSE "read"
       IN <<module_name, Dot, operation>>

\* DRFPermissionMixin.check_permissions: the permission classes of the view
\* (IsAuthenticated, the default of settings.REST_FRAMEWORK), then the
\* required permission
check_permissions(user, module_name, action) ==
  /\ response.op = "none"
  /\ LET required_permission == get_required_permission(module_name, action)
         held == has_permission(user, required_permission)
     IN response' =
          [op |-> "check_permissions", user |-> user,
           module_name |-> module_name, action |-> action,
           required_permission |-> required_permission,
           result |-> IF ~user.is_authenticated THEN "not_authenticated"
                      ELSE IF required_permission = NoCode THEN "allowed"
                      ELSE IF held.exception # "None" THEN held.exception
                      ELSE IF ~held.value THEN "permission_denied"
                      ELSE "allowed"]
  /\ UNCHANGED <<custom_permissions, user_permissions, group_permissions,
                 user_groups, user_group_active, user_group_default,
                 appointments, in_flight, permission_logs, ops>>

\* the stores of CheckInit; check_permissions reads no UserGroup row
GateInit ==
  /\ CheckInit
  /\ user_group_active = [g \in Groups |-> TRUE]

GateNext ==
  \E user \in Identities, module_name \in ModuleNames, action \in ViewActions :
    check_permissions(user, module_name, action)

SpecGate == GateInit /\ [][GateNext]_vars

----------------------------------------------------------------------------
(* Appointments: AppointmentViewSet and AppointmentCreateUpdateSerializer.
   Times are counted in half hours from the start of the evening; the day ends
   after DaySlots of them, where a TimeField starts again from midnight. *)

Doctors == {"d1", "d2"}

\* appointment_date values; Today is timezone.now().date()
Today == 0

Dates == {1}

DaySlots == 4

Times == 0..2

\* duration_minutes of a request body
Durations == {1, 2}

\* attrs.get('duration_minutes', 30)
DefaultDuration == 1

\* AppointmentType.duration_minutes of the appointment type of the requests
TypeDuration == 2

\* rows of TimeSlot with is_available, on the weekday of the dates
time_slots ==
  {[doctor |-> "d1", start_time |-> 0, end_time |-> 2],
   [doctor |-> "d2", start_time |-> 0, end_time |-> 1]}

ActiveStatuses == {"scheduled", "confirmed", "in_progress"}

\* a date, time or duration key the body leaves out
Missing == 0 - 1

\* no primary key: the request is a create
NoPk == 0

\* self.instance of a serializer made without one
NoInstance == [id |-> NoPk]

\* the fields of a request body that matter here
FullBodies ==
  [doctor : Doctors, appointment_date : Dates, appointment_time : Times,
   duration_minutes : Durations \cup {Missing}, status : {None}]

PartialBodies ==
  [doctor : {None}, appointment_date : {Missing}, appointment_time : {Missing},
   duration_minutes : {Missing},
   status : {"scheduled", "confirmed", "in_progress", "rescheduled"}]
  \cup
  [doctor : {None}, appointment_date : {Missing}, appointment_time : Times,
   duration_minutes : {Missing}, status : {None}]
  \cup
  [doctor : {None}, appointment_date : {Missing}, appointment_time : {Missing},
   duration_minutes : Durations, status : {None}]

Bodies == FullBodies \cup PartialBodies

AppointmentPks == 1..MaxAppointments

AppointmentByPk(pk) == CHOOSE a \in appointments : a.id = pk

\* (datetime.combine(date, appointment_time) + timedelta(minutes=duration)).time()
EndTime(appointment_time, duration) == (appointment_time + duration) % DaySlots

\* Appointment.save computing end_time from the stored duration
save(a) ==
  [a EXCEPT !.end_time = EndTime(a.appointment_time, a.duration_minutes)]

\* AppointmentCreateUpdateSerializer.validate
validate(instance, attrs) ==
  IF /\ instance = NoInstance
     /\ attrs.appointment_date # Missing
     /\ attrs.appointment_date < Today
  THEN "Cannot schedule appointment in the past"
  ELSE IF /\ attrs.doctor # None
          /\ attrs.appointment_date # Missing
          /\ attrs.appointment_time # Missing
  THEN IF ~\E slot \in time_slots :
             /\ slot.doctor = attrs.doctor
             /\ slot.start_time <= attrs.appointment_time
             /\ slot.end_time >= attrs.appointment_time
       THEN "Doctor is not available at this time"
       ELSE LET duration == IF attrs.duration_minutes # Missing
                            THEN attrs.duration_minutes ELSE DefaultDuration
                end_time == EndTime(attrs.appointment_time, duration)
                conflicting_appointments ==
                  {a \in appointments :
                     /\ a.doctor = attrs.doctor
                     /\ a.appointment_date = attrs.appointment_date
                     /\ a.status \in ActiveStatuses
                     /\ a.appointment_time < end_time
                     /\ a.end_time > attrs.appointment_time
                     /\ a.id # instance.id}
            IN IF conflicting_appointments # {}
               THEN "Doctor has a conflicting appointment at this time"
               ELSE "ok"
  ELSE "ok"

\* the primary key of the next INSERT
NextPk == Cardinality(appointments) + 1

\* AppointmentCreateUpdateSerializer.create and Appointment.objects.create
create(validated_data) ==
  save([id |-> NextPk,
        doctor |-> validated_data.doctor,
        appointment_date |-> validated_data.appointment_date,
        appointment_time |-> validated_data.appointment_time,
        duration_minutes |-> IF validated_data.duration_minutes # Missing
                             THEN validated_data.duration_minutes
                             ELSE TypeDuration,
        end_time |-> 0,
        status |-> IF validated_data.status # None
                   THEN validated_data.status ELSE "scheduled",
        checked_in_at |-> None,
        actual_end_time |-> None,
        cancelled_at |-> None])

\* ModelSerializer.update: setattr of every validated key on the instance the
\* view loaded, then instance.save()
update(instance, validated_data) ==
  save([instance EXCEPT
          !.doctor = IF validated_data.doctor # None
                     THEN validated_data.doctor ELSE @,
          !.appointment_date = IF validated_data.appointment_date # Missing
                               THEN validated_data.appointment_date ELSE @,
          !.appointment_time = IF validated_data.appointment_time # Missing
                               THEN validated_data.appointment_time ELSE @,
          !.duration_minutes = IF validated_data.duration_minutes # Missing
                               THEN validated_data.duration_minutes ELSE @,
          !.status = IF validated_data.status # None
                     THEN validated_data.status ELSE @])

\* the row of a primary key replaced by the instance that was saved
Stored(instance) == {a \in appointments : a.id # instance.id} \cup {instance}

\* POST appointments/ (pk = NoPk) and PATCH appointments/<pk>/ up to the end of
\* serializer.is_valid(): get_object(), the required fields, validate()
appointment_is_valid(r, pk, data) ==
  /\ in_flight[r] = Idle
  /\ LET op == IF pk = NoPk THEN "appointment_create" ELSE "appointment_update"
     IN IF pk # NoPk /\ ~\E a \in appointments : a.id = pk
        THEN /\ in_flight' = [in_flight EXCEPT ![r] = [pc |-> "done"]]
             /\ response' = [op |-> op, status |-> 404, pk |-> pk]
        ELSE LET instance == IF pk = NoPk THEN NoInstance ELSE AppointmentByPk(pk)
             IN IF \/ pk = NoPk /\ data \notin FullBodies
                   \/ validate(instance, data) # "ok"
                THEN /\ in_flight' = [in_flight EXCEPT ![r] = [pc |-> "done"]]
                     /\ response' = [op |-> op, status |-> 400, pk |-> pk]
                ELSE /\ in_flight' = [in_flight EXCEPT ![r] =
                          [pc |-> "validated", instance |-> instance,
                           validated_data |-> data]]
                     /\ UNCHANGED response
  /\ UNCHANGED <<custom_permissions, user_permissions, group_permissions,
                 user_groups, user_group_active, user_group_default,
                 appointments, permission_logs, ops>>

\* perform_create / perform_update: serializer.save()
appointment_save(r) ==
  /\ in_flight[r].pc = "validated"
  /\ LET instance == in_flight[r].instance
         validated_data == in_flight[r].validated_data
     IN IF instance = NoInstance
        THEN /\ Cardinality(appointments) < MaxAppointments
             /\ appointments' = appointments \cup {create(validated_data)}
             /\ response' = [op |-> "appointment_create", status |-> 201,
                             pk |-> NextPk]
        ELSE /\ appointments' = Stored(update(instance, validated_data))
             /\ response' = [op |-> "appointment_update", status |-> 200,
                             pk |-> instance.id]
  /\ in_flight' = [in_flight EXCEPT ![r] = [pc |-> "done"]]
  /\ UNCHANGED <<custom_permissions, user_permissions, group_permissions,
                 user_groups, user_group_active, user_group_default,
                 permission_logs, ops>>

\* what an action on appointments/<pk>/ leaves alone
AppointmentAction ==
  UNCHANGED <<custom_permissions, user_permissions, group_permissions,
              user_groups, user_group_active, user_group_default,
              in_flight, permission_logs>>

\* get_object() of a primary key without a row
NotFound(op, pk) ==
  /\ Handled([op |-> op, status |-> 404, pk |-> pk])
  /\ UNCHANGED appointments

\* POST appointments/<pk>/check_in/
check_in(pk) ==
  /\ ops < MaxOps
  /\ AppointmentAction
  /\ IF ~\E a \in appointments : a.id = pk
     THEN NotFound("check_in", pk)
     ELSE LET appointment == AppointmentByPk(pk)
          IN IF appointment.status # "confirmed"
             THEN /\ Handled([op |-> "check_in", status |-> 400, pk |-> pk])
                  /\ UNCHANGED appointments
             ELSE /\ appointments' =
                       Stored([appointment EXCEPT !.checked_in_at = "now",
                                                  !.status = "in_progress"])
                  /\ Handled([op |-> "check_in", status |-> 200, pk |-> pk])

\* POST appointments/<pk>/complete/
complete(pk) ==
  /\ ops < MaxOps
  /\ AppointmentAction
  /\ IF ~\E a \in appointments : a.id = pk
     THEN NotFound("complete", pk)
     ELSE LET appointment == AppointmentByPk(pk)
          IN IF appointment.status \notin {"confirmed", "in_progress"}
             THEN /\ Handled([op |-> "complete", status |-> 400, pk |-> pk])
                  /\ UNCHANGED appointments
             ELSE /\ appointments' =
                       Stored(save([appointment EXCEPT
                                      !.status = "completed",
                                      !.actual_end_time = "now"]))
                  /\ Handled([op |-> "complete", status |-> 200, pk |-> pk])

\* Appointment.can_cancel; far: time_until_appointment is more than 24 hours
can_cancel(appointment, far) ==
  IF appointment.status \in {"completed", "cancelled", "no_show"}
  THEN FALSE
  ELSE far

\* Appointment.can_reschedule
can_reschedule(appointment, far) ==
  can_cancel(appointment, far) /\ appointment.status \in {"scheduled", "confirmed"}

\* POST appointments/<pk>/cancel/
cancel(pk, far) ==
  /\ ops < MaxOps
  /\ AppointmentAction
  /\ IF ~\E a \in appointments : a.id = pk
     THEN NotFound("cancel", pk)
     ELSE LET appointment == AppointmentByPk(pk)
          IN IF ~can_cancel(appointment, far)
             THEN /\ Handled([op |-> "cancel", status |-> 400, pk |-> pk])
                  /\ UNCHANGED appointments
             ELSE /\ appointments' =
                       Stored(save([appointment EXCEPT
                                      !.status = "cancelled",
                                      !.cancelled_at = "now"]))
                  /\ Handled([op |-> "cancel", status |-> 200, pk |-> pk])

\* POST appointments/<pk>/reschedule/.  The serializer is handed model
\* instances for its primary key fields; relations_valid is whether
\* PrimaryKeyRelatedField resolves them, which the installed framework decides.
reschedule(pk, far, new_date, new_time, relations_valid) ==
  /\ ops < MaxOps
  /\ AppointmentAction
  /\ IF ~\E a \in appointments : a.id = pk
     THEN NotFound("reschedule", pk)
     ELSE LET appointment == AppointmentByPk(pk)
              new_appointment_data ==
                [doctor |-> appointment.doctor,
                 appointment_date |-> new_date,
                 appointment_time |-> new_time,
                 duration_minutes |-> appointment.duration_minutes,
                 status |-> None]
          IN IF \/ ~can_reschedule(appointment, far)
                \/ new_date = Missing
                \/ new_time = Missing
                \/ ~relations_valid
                \/ validate(NoInstance, new_appointment_data) # "ok"
             THEN /\ Handled([op |-> "reschedule", status |-> 400, pk |-> pk])
                  /\ UNCHANGED appointments
             ELSE /\ Cardinality(appointments) < MaxAppointments
                  /\ appointments' =
                       Stored(save([appointment EXCEPT !.status = "rescheduled"]))
                         \cup {create(new_appointment_data)}
                  /\ Handled([op |-> "reschedule", status |-> 200, pk |-> pk])

AppointmentsInit ==
  /\ custom_permissions = {}
  /\ user_permissions = {}
  /\ group_permissions = {}
  /\ user_groups = {}
  /\ user_group_active = [g \in Groups |-> TRUE]
  /\ InitLog

\* the requests of several workers in any order
AppointmentsNext ==
  \/ \E r \in RequestIds, pk \in AppointmentPks \cup {NoPk}, data \in Bodies :
       appointment_is_valid(r, pk, data)
  \/ \E r \in RequestIds : appointment_save(r)
  \/ \E pk \in AppointmentPks : check_in(pk)
  \/ \E pk \in AppointmentPks : complete(pk)
  \/ \E pk \in AppointmentPks, far \in BOOLEAN : cancel(pk, far)
  \/ \E pk \in AppointmentPks, far \in BOOLEAN, new_date \in Dates \cup {Missing},
        new_time \in Times \cup {Missing}, relations_valid \in BOOLEAN :
       reschedule(pk, far, new_date, new_time, relations_valid)

SpecAppointments == AppointmentsInit /\ [][AppointmentsNext]_vars

----------------------------------------------------------------------------
(* What the claims are stated with *)

IdentityOf(user_id) == CHOOSE u \in Identities : u.id = user_id /\ u.is_authenticated

HasOverride(user, permission, is_granted) ==
  [user |-> user.id, permission |-> permission, is_granted |-> is_granted]
    \in user_permissions

OverridesOf(user, permission) ==
  {up \in user_permissions : up.user = user.id /\ up.permission = permission}

\* some group of the user holds the permission
RoleGrants(user, permission) ==
  \E g \in Groups :
    /\ [user |-> user.id, group |-> g] \in user_groups
    /\ [group |-> g, permission |-> permission] \in group_permissions

\* some group of the user that is itself active holds the permission
ActiveRoleGrants(user, permission) ==
  \E g \in Groups :
    /\ user_group_active[g]
    /\ [user |-> user.id, group |-> g] \in user_groups
    /\ [group |-> g, permission |-> permission] \in group_permissions

\* the active permissions a code string names, in either written form
NamedBy(code) ==
  {p \in custom_permissions :
     /\ p.is_active
     /\ code \in {DerivedCodename(p.content_type, p.operation),
                  QualifiedCodename(p.content_type, p.operation)}}

\* the two written forms of the code of a permission
CodesOf(p) ==
  {DerivedCodename(p.content_type, p.operation),
   QualifiedCodename(p.content_type, p.operation)}

\* the code string is resolved to the permission p
Identifies(code, p) == lookup(code) = [exception |-> "None", row |-> p]

----------------------------------------------------------------------------
(* C1..C10 *)

\* C1: for every authenticated user U and permission P, a direct override of U
\* for P with is_granted = false makes has_permission(U, codename of P) return
\* False, whatever the groups of U grant.
C1_DirectDenialDominance ==
  \A user \in Identities, p \in custom_permissions :
    (user.is_authenticated /\ HasOverride(user, PermissionId(p), FALSE))
      => has_permission(user, p.codename) = Returned(FALSE)

\* C2: a user with no group and no direct override is answered False for the
\* codename of every registered permission.
C2_DenyByDefault ==
  \A user \in Identities, p \in custom_permissions :
    (/\ groups_of(user) = {}
     /\ \A up \in user_permissions : up.user # user.id)
      => has_permission(user, p.codename) = Returned(FALSE)

\* C3: for every authenticated user U and active permission P, a direct override
\* of U for P with is_granted = true makes has_permission(U, codename of P)
\* return True, also when no group of U grants P.
C3_DirectGrantOverridesAbsence ==
  \A user \in Identities, p \in custom_permissions :
    (/\ user.is_authenticated
     /\ p.is_active
     /\ HasOverride(user, PermissionId(p), TRUE))
      => has_permission(user, p.codename) = Returned(TRUE)

\* C4: for an authenticated user U that is no superuser and has no direct
\* override for the active permission P a code identifies, has_permission
\* returns True exactly when a group of U that is itself active holds P.
C4_RoleDerivedDecision ==
  \A user \in Identities, code \in Codes, p \in custom_permissions :
    (/\ user.is_authenticated
     /\ ~user.is_superuser
     /\ Identifies(code, p)
     /\ OverridesOf(user, PermissionId(p)) = {})
      => (has_permission(user, code) = Returned(TRUE)
            <=> ActiveRoleGrants(user, PermissionId(p)))

\* C5: a superuser is answered True for every code string: registered,
\* unregistered, malformed, or directly denied.
C5_SuperuserBypass ==
  \A user \in Identities, code \in Codes :
    (user.is_authenticated /\ user.is_superuser)
      => has_permission(user, code) = Returned(TRUE)

\* C6: for every catalog and every code string has_permission returns a boolean
\* and raises nothing, and it returns False whenever the code does not name
\* exactly one active permission.
C6_FailClosed ==
  \A user \in Identities, code \in Codes :
    LET r == has_permission(user, code)
    IN /\ r.exception = "None"
       /\ Cardinality(NamedBy(code)) # 1 => r.value = FALSE

\* C7: an identity that is not authenticated is answered False for every code
\* string, whatever overrides and group grants are stored under its key, and
\* its list of effective permissions is empty.
C7_UnauthenticatedDenied ==
  \A user \in Identities :
    ~user.is_authenticated
      => /\ \A code \in Codes : has_permission(user, code) = Returned(FALSE)
         /\ get_user_permissions(user) = {}

\* C7 witness: has_permission was called for an identity that is not
\* authenticated, with a code that names a permission granted under its key
\* both directly and through a group, and answered False.
C7_Witness ==
  /\ response.op = "has_permission"
  /\ ~response.user.is_authenticated
  /\ \E p \in custom_permissions :
       /\ Identifies(response.permission_codename, p)
       /\ HasOverride(response.user, PermissionId(p), TRUE)
       /\ RoleGrants(response.user, PermissionId(p))
  /\ response.result = Returned(FALSE)

\* C8: when has_permission(U, P) is True through a group alone, the request
\* that stores a denial of P for U makes it False; the request that deletes the
\* denial row while a group of U holds P makes it True again.
C8_DenyThenRevoke ==
  [][(response'.op \in {"create", "destroy"} /\ response'.status \in {201, 204})
       => \A user \in Identities, p \in custom_permissions :
            (/\ response'.user = user.id
             /\ response'.permission = PermissionId(p)
             /\ user.is_authenticated
             /\ RoleGrants(user, PermissionId(p)))
              => /\ (/\ response'.op = "create"
                     /\ ~response'.is_granted
                     /\ OverridesOf(user, PermissionId(p)) = {})
                    => \A code \in CodesOf(p) :
                         (/\ Identifies(code, p)
                          /\ has_permission(user, code) = Returned(TRUE))
                           => has_permission(user, code)' = Returned(FALSE)
                 /\ (/\ response'.op = "destroy"
                     /\ HasOverride(user, PermissionId(p), FALSE))
                    => \A code \in CodesOf(p) :
                         Identifies(code, p)
                           => has_permission(user, code)' = Returned(TRUE)]_vars

\* C8 witness: u1 holds the permission through g1, a denial was stored (the
\* view logs it as revoke_user) and then deleted, and has_permission is True.
C8_Witness ==
  /\ response = [op |-> "destroy", status |-> 204, user |-> "u1",
                 permission |-> <<<<"permissions", "permission">>, "read">>]
  /\ \E i \in 1..Len(permission_logs) :
       /\ permission_logs[i].action = "revoke_user"
       /\ permission_logs[i].target_user = "u1"
       /\ permission_logs[i].permission = response.permission
  /\ OverridesOf(IdentityOf("u1"), response.permission) = {}
  /\ RoleGrants(IdentityOf("u1"), response.permission)
  /\ has_permission(IdentityOf("u1"), <<"permission", Dot, "read">>)
       = Returned(TRUE)

\* C9: once has_permission(U, P) is True because of a direct grant and the
\* grant row is deleted, has_permission answers from the rows then stored:
\* True when a group of U holds P, False otherwise.
C9_NoStaleDecision ==
  [][(response'.op = "destroy" /\ response'.status = 204)
       => \A user \in Identities, p \in custom_permissions :
            (/\ response'.user = user.id
             /\ response'.permission = PermissionId(p)
             /\ user.is_authenticated
             /\ HasOverride(user, PermissionId(p), TRUE))
              => \A code \in CodesOf(p) :
                   (/\ Identifies(code, p)
                    /\ has_permission(user, code) = Returned(TRUE))
                     => has_permission(user, code)'
                          = Returned(RoleGrants(user, PermissionId(p))')]_vars

\* C9 witness: a direct grant of admin was stored and then deleted, no group
\* of admin holds the permission, and has_permission is False.
C9_Witness ==
  /\ response = [op |-> "destroy", status |-> 204, user |-> "admin",
                 permission |-> <<<<"permissions", "permission">>, "read">>]
  /\ \E i \in 1..Len(permission_logs) :
       /\ permission_logs[i].action = "grant_user"
       /\ permission_logs[i].target_user = "admin"
       /\ permission_logs[i].permission = response.permission
  /\ ~RoleGrants(IdentityOf("admin"), response.permission)
  /\ has_permission(IdentityOf("admin"), <<"permission", Dot, "read">>)
       = Returned(FALSE)

\* C10: after a request that grants the stored, active permission P to the
\* user U, the first time or repeated, there is exactly one override row for
\* (U, P), it has is_granted = true, and has_permission(U, P) is True.
C10_IdempotentGrant ==
  (/\ response.op = "create"
   /\ response.is_granted
   /\ response.user \in Users
   /\ response.permission \in StoredPermissionIds
   /\ PermissionById(response.permission).is_active)
    => /\ OverridesOf(IdentityOf(response.user), response.permission)
            = {[user |-> response.user, permission |-> response.permission,
                is_granted |-> TRUE]}
       /\ has_permission(IdentityOf(response.user),
                         PermissionById(response.permission).codename)
            = Returned(TRUE)

----------------------------------------------------------------------------
(* C11..C20 *)

\* C11: under every interleaving of POST user-permissions/ requests for the
\* same (user, permission), the table never holds two rows for the pair, so no
\* user has both a grant row and a denial row of one permission.
C11_OverrideUniqueness ==
  \A up, other \in user_permissions :
    (up.user = other.user /\ up.permission = other.permission) => up = other

\* C11 witness: a grant and a denial of one pair both passed the serializer
\* while no row was stored; one INSERT was accepted and the other was answered
\* with the IntegrityError.
C11_Witness ==
  /\ response.op = "create"
  /\ response.status = 500
  /\ \A r \in RequestIds : in_flight[r].pc = "done"
  /\ Cardinality(OverridesOf(IdentityOf(response.user), response.permission)) = 1
  /\ HasOverride(IdentityOf(response.user), response.permission,
                 ~response.is_granted)

\* C12: DELETE of the override of (U, P) when no row for (U, P) is stored is
\* answered as a success and leaves user_permissions as it was.
C12_RevokeIdempotent ==
  [][(/\ response'.op = "destroy"
      /\ response'.user \in Users
      /\ response'.permission \in StoredPermissionIds
      /\ \A up \in user_permissions :
           ~(up.user = response'.user /\ up.permission = response'.permission))
       => /\ response'.status = 204
          /\ user_permissions' = user_permissions]_vars

\* C13: a POST user-permissions/ that names a permission that is not stored or
\* is not active is not answered 201, stores no override row and writes no log
\* row.
C13_GrantUnknownPermissionFails ==
  [][(/\ response'.op = "create"
      /\ \/ response'.permission \notin StoredPermissionIds
         \/ ~PermissionById(response'.permission).is_active)
       => /\ response'.status # 201
          /\ user_permissions' = user_permissions
          /\ permission_logs' = permission_logs]_vars

\* C14: add_user and add_to_group answer 404 when the group is not stored or is
\* not active, and then leave user_groups and permission_logs as they were.
C14_AssignUnknownRoleFails ==
  [][/\ \A actor \in Actors, group \in GroupIds, user_id \in Users :
          (/\ add_user(actor, group, user_id)
           /\ (group \notin Groups \/ ~user_group_active[group]))
            => /\ response'.status = 404
               /\ UNCHANGED <<user_groups, permission_logs>>
     /\ \A user \in Users, group_id \in GroupIds :
          (/\ add_to_group(user, group_id)
           /\ (group_id \notin Groups \/ ~user_group_active[group_id]))
            => /\ response'.status = 404
               /\ UNCHANGED <<user_groups, permission_logs>>]_vars

\* the log rows about a membership or a direct override
AuditedChanges(log) ==
  {i \in 1..Len(log) :
     log[i].action \in {"grant_user", "revoke_user", "add_user_to_group",
                        "remove_user_from_group"}}

\* the (user, permission) pairs that have an override row
OverridePairs(rows) == {<<up.user, up.permission>> : up \in rows}

\* C15: a request adds exactly one membership or override log row when it
\* creates or deletes a membership or an override row, whichever endpoint it
\* is, and none otherwise, so the changes made and the log rows about them
\* stay equal in number.
C15_AuditCompleteness ==
  [][Cardinality(AuditedChanges(permission_logs'))
       = Cardinality(AuditedChanges(permission_logs))
           + (IF \/ user_groups' # user_groups
                 \/ OverridePairs(user_permissions')
                      # OverridePairs(user_permissions)
              THEN 1 ELSE 0)]_vars

\* C16: a log row that is stored stays stored with the same content: every
\* request leaves the rows already in permission_logs in place and only adds
\* rows after them.
C16_AuditAppendOnly ==
  [][/\ Len(permission_logs') >= Len(permission_logs)
     /\ SubSeq(permission_logs', 1, Len(permission_logs)) = permission_logs]_vars

\* the codenames of a set of permission keys
CodenamesOf(ids) == {PermissionById(id).codename : id \in ids}

\* C17: for an authenticated user that is no superuser, the list
\* get_user_permissions returns is the codes granted by the user's groups,
\* without the codes of the permissions the user is directly denied, together
\* with the codes of the user's direct grants.
C17_EffectivePermissions ==
  (/\ response.op = "get_user_permissions"
   /\ response.user.is_authenticated
   /\ ~response.user.is_superuser)
    => response.result
         = (CodenamesOf({id \in StoredPermissionIds :
                           RoleGrants(response.user, id)})
              \ CodenamesOf({id \in StoredPermissionIds :
                               HasOverride(response.user, id, FALSE)}))
             \cup CodenamesOf({id \in StoredPermissionIds :
                                 HasOverride(response.user, id, TRUE)})

\* C17 witness: the list was asked for a user who is no superuser while a group
\* of the user holds a permission the user is directly denied, and the code of
\* that permission is not in the list.
C17_Witness ==
  /\ response.op = "get_user_permissions"
  /\ response.user.is_authenticated
  /\ ~response.user.is_superuser
  /\ \E p \in custom_permissions :
       /\ RoleGrants(response.user, PermissionId(p))
       /\ HasOverride(response.user, PermissionId(p), FALSE)
       /\ p.codename \notin response.result

\* C18: for a superuser get_user_permissions is the codes of all active
\* permissions, whatever groups and overrides the superuser has.
C18_SuperuserFullCatalog ==
  \A user \in Identities :
    (user.is_authenticated /\ user.is_superuser)
      => get_user_permissions(user)
           = {p.codename : p \in {q \in custom_permissions : q.is_active}}

\* the permissions a code string names, in either written form, active or not
Named(code) ==
  {p \in custom_permissions :
     code \in {DerivedCodename(p.content_type, p.operation),
               QualifiedCodename(p.content_type, p.operation)}}

C20_ExpiredOverrideExcluded ==
  [][\A actor \in Actors, user \in Users, permission \in PermissionIds :
       (/\ UserPermissionCreate(actor, user, permission, TRUE, "past")
        /\ response'.status = 201
        /\ ~IdentityOf(user).is_superuser
        /\ ~RoleGrants(IdentityOf(user), permission))
         => \A code \in Codes :
              Identifies(code, PermissionById(permission))
                => has_permission(IdentityOf(user), code)' = Returned(FALSE)]_vars

----------------------------------------------------------------------------
(* C21..C30 *)

\* the (content type, operation) pairs a registration call asks for
Requested(content_type, operations) ==
  {<<content_type, operations[i]>> : i \in 1..Len(operations)}

\* C21: create_permissions_for_model creates the requested permissions that
\* are not stored yet, active, returns exactly those, leaves the stored rows as
\* they are, and the catalog holds one row per (content type, operation); a
\* repeated call returns the empty list.
C21_RegistrationIdempotent ==
  [][\A content_type \in ContentTypes, operations \in OperationLists :
       create_permissions_for_model(content_type, operations)
         => LET missing == Requested(content_type, operations)
                             \ StoredPermissionIds
            IN /\ response'.exception = "None"
               /\ response'.created = missing
               /\ custom_permissions \subseteq custom_permissions'
               /\ {PermissionId(p) : p \in custom_permissions' \ custom_permissions}
                    = missing
               /\ \A p \in custom_permissions' \ custom_permissions : p.is_active
               /\ \A p, q \in custom_permissions' :
                    PermissionId(p) = PermissionId(q) => p = q]_vars

\* a code string with exactly one separator and a non-empty part on each side
TwoPart(code) ==
  /\ Cardinality({i \in 1..Len(code) : code[i] = Dot}) = 1
  /\ code[1] # Dot
  /\ code[Len(code)] # Dot

PartCount(code) == Cardinality({i \in 1..Len(code) : code[i] = Dot}) + 1

C23_CheckReadOnly ==
  [][response'.op = "has_permission"
       => UNCHANGED <<custom_permissions, user_permissions, group_permissions,
                      user_groups, user_group_active, user_group_default,
                 appointments, permission_logs>>]_vars

\* C23 witness: has_permission was called for an authenticated user who has
\* rows of all three kinds, and answered False because of a denial.
C23_Witness ==
  /\ response.op = "has_permission"
  /\ response.user.is_authenticated
  /\ response.result = Returned(FALSE)
  /\ \E p \in custom_permissions :
       /\ Identifies(response.permission_codename, p)
       /\ HasOverride(response.user, PermissionId(p), FALSE)
       /\ RoleGrants(response.user, PermissionId(p))

\* C24: at most one role has is_default set in every state, and once
\* setRoleDefault(role) has answered, whatever role was the default before and
\* whichever requests ran around it, exactly one role is the default; after
\* the last setRoleDefault it is the role that call named.
C24_DefaultRoleUniqueness ==
  /\ Cardinality({g \in Groups : user_group_default[g]}) <= 1
  /\ (response.op = "setRoleDefault" /\ response.status = 200)
       => {g \in Groups : user_group_default[g]} = {response.role}

\* C24 witness: after a second request the default role is g2, set by
\* setRoleDefault, and the other role does not hold the flag.
C24_Witness ==
  /\ ops >= 2
  /\ response.op = "setRoleDefault"
  /\ response.status = 200
  /\ response.role = "g2"
  /\ user_group_default["g2"]
  /\ ~user_group_default["g1"]

\* C25: for every authenticated user U that is no superuser and every stored
\* permission P, active or not, the codename of P is in get_user_permissions(U)
\* exactly when has_permission(U, codename of P) is True.
C25_ReadOperationsAgree ==
  \A user \in Identities, p \in custom_permissions :
    (user.is_authenticated /\ ~user.is_superuser)
      => (p.codename \in get_user_permissions(user)
            <=> has_permission(user, p.codename) = Returned(TRUE))

\* the operation the claim gives for a viewset action
OperationOf(action) ==
  CASE action \in {"list", "retrieve"} -> "read"
    [] action = "create" -> "create"
    [] action \in {"update", "partial_update"} -> "update"
    [] action = "destroy" -> "delete"
    [] OTHER -> "read"

\* C26: for a viewset with a module_name the required code is
\* '<module_name>.<operation>' with list/retrieve -> read, create -> create,
\* update/partial_update -> update, destroy -> delete and every other action
\* -> read, and the request is refused exactly when has_permission(user, that
\* code) is False; a viewset without module_name requires no code and refuses
\* only what its permission classes refuse.
C26_ActionPermissionMapping ==
  response.op = "check_permissions"
    => IF response.module_name = None
       THEN /\ response.required_permission = NoCode
            /\ response.result \in {"not_authenticated", "permission_denied"}
                 <=> ~response.user.is_authenticated
       ELSE /\ response.required_permission
                 = <<response.module_name, Dot, OperationOf(response.action)>>
            /\ response.result \in {"not_authenticated", "permission_denied"}
                 <=> has_permission(response.user, response.required_permission)
                       = Returned(FALSE)

\* C26 witness: the custom action cancel of a viewset whose module_name is
\* 'permission' was asked for by an authenticated user who holds
\* 'permission.read', and was let through.
C26_Witness ==
  /\ response.op = "check_permissions"
  /\ response.action = "cancel"
  /\ response.module_name = "permission"
  /\ response.user.is_authenticated
  /\ response.required_permission = <<"permission", Dot, "read">>
  /\ has_permission(response.user, <<"permission", Dot, "read">>)
       = Returned(TRUE)
  /\ response.result = "allowed"

\* C27: add_permission for a permission the group already has changes neither
\* group_permissions nor permission_logs and answers 200; add_permission that
\* creates the row appends exactly one 'grant_group' row; remove_permission
\* for a permission the group does not have answers 404 and changes neither;
\* remove_permission of a row the group has deletes it and appends exactly
\* one 'revoke_group' row.
C27_GroupGrantsSetLike ==
  [][\A actor \in Actors, group \in Groups, permission_id \in PermissionIds :
       LET row == [group |-> group, permission |-> permission_id]
       IN /\ (/\ permission_id \in StoredPermissionIds
              /\ add_permission(actor, group, permission_id))
               => IF row \in group_permissions
                  THEN /\ group_permissions' = group_permissions
                       /\ permission_logs' = permission_logs
                       /\ response'.status = 200
                  ELSE /\ group_permissions' = group_permissions \cup {row}
                       /\ permission_logs' =
                            Append(permission_logs,
                                   LogEntry("grant_group", actor, None,
                                            permission_id, group))
          /\ remove_permission(actor, group, permission_id)
               => IF row \in group_permissions
                  THEN /\ group_permissions' = group_permissions \ {row}
                       /\ permission_logs' =
                            Append(permission_logs,
                                   LogEntry("revoke_group", actor, None,
                                            permission_id, group))
                  ELSE /\ group_permissions' = group_permissions
                       /\ permission_logs' = permission_logs
                       /\ response'.status = 404]_vars

\* C27 witness: add_permission was answered 200 for a permission the group
\* already had, and the log is still empty.
C27_Witness ==
  /\ response.op = "add_permission"
  /\ response.status = 200
  /\ ~response.created
  /\ group_permissions # {}
  /\ permission_logs = <<>>

\* C28: whatever the order in which create and update requests that passed
\* validation are served, no two appointments of one doctor on one date whose
\* status is scheduled, confirmed or in_progress have overlapping
\* [appointment_time, end_time) intervals.
C28_NoDoubleBooking ==
  \A a, b \in appointments :
    (/\ a.id # b.id
     /\ a.doctor = b.doctor
     /\ a.appointment_date = b.appointment_date
     /\ a.status \in ActiveStatuses
     /\ b.status \in ActiveStatuses)
      => ~(a.appointment_time < b.end_time /\ b.appointment_time < a.end_time)

\* C29: an appointment whose status is completed, cancelled, no_show or
\* rescheduled keeps that status through every check_in, complete, cancel
\* and reschedule.
C29_TerminalStatusFinal ==
  [][response'.op \in {"check_in", "complete", "cancel", "reschedule"}
       => \A a \in appointments :
            a.status \notin ActiveStatuses
              => \E b \in appointments' : b.id = a.id /\ b.status = a.status]_vars

\* C30: check_in succeeds only on a confirmed appointment and makes it
\* in_progress; complete succeeds only on a confirmed or in_progress
\* appointment and makes it completed; a refused check_in or complete leaves
\* the appointment table as it was; and so an appointment is in_progress only
\* with checked_in_at set.
C30_ActionGuards ==
  /\ [][\A pk \in AppointmentPks :
          /\ (check_in(pk) /\ response'.status = 200)
               => /\ AppointmentByPk(pk).status = "confirmed"
                  /\ AppointmentByPk(pk)'.status = "in_progress"
          /\ (complete(pk) /\ response'.status = 200)
               => /\ AppointmentByPk(pk).status \in {"confirmed", "in_progress"}
                  /\ AppointmentByPk(pk)'.status = "completed"
          /\ ((check_in(pk) \/ complete(pk)) /\ response'.status # 200)
               => appointments' = appointments]_vars
  /\ [](\A a \in appointments :
          a.status = "in_progress" => a.checked_in_at # None)

====
